---- MODULE Spec2Model ----
(***************************************************************************)
(* Backtest engine of the scalping bot: the per-bar loop of                *)
(* BacktestEngine.run_backtest, the position life cycle (_monitor_position,*)
(* _partial_exit, _close_position), the entry path (_check_entry_signal,   *)
(* validate_trade), the slippage model and the equity / drawdown recorder. *)
(*                                                                         *)
(* Number representation.  The code computes with decimal.Decimal, which   *)
(* is exact for the values that occur here.  The model keeps every amount  *)
(* as an integer:                                                          *)
(*   - a slippage fraction is counted in 1/SlipDen (1e-5);                 *)
(*   - a price is counted in 1/PriceUnit of a price level, a bar close is  *)
(*     a whole number of levels, so price * (1 +- slippage) and the        *)
(*     TP1/TP2 fractions of a distance are whole numbers;                  *)
(*   - a quantity is counted in 1e-5, the exchange step 0.001 is StepSize; *)
(*   - money is price units times quantity units.                          *)
(* Decimal(str(float(x))) leaves a decimal of at most 15 significant       *)
(* digits unchanged; every amount of the model has fewer than 11.          *)
(***************************************************************************)
EXTENDS Integers, Sequences, FiniteSets, TLC

\* ---------------------------------------------------------------- bounds
MaxBars == 4
MinLevel == 99
MaxLevel == 101

\* ------------------------------------------------------- representation
SlipDen == 100000
PriceUnit == 4 * SlipDen
StepSize == 100

\* ------------------------------------------------------------- settings
TP1_PERCENTAGE == 50
TP2_PERCENTAGE == 75
TP1_EXIT_RATIO == 30
TP2_EXIT_RATIO == 40
TP3_EXIT_RATIO == 30
PctDen == 100
MAX_DRAWDOWN == 15
InitialCapital == 960000000
MinSlDistance == 2
MinSlDen == 1000
SlippageMin == 100
SlippageMax == 5000
DefaultSpread == 5

\* ------------------------------------------------------------- inputs
None == [none |-> TRUE]
Sides == {"BUY", "SELL"}
Regimes == {"TRENDING_UP", "RANGING", "HIGH_VOLATILITY", "BREAKOUT_FORMING"}
Levels == MinLevel..MaxLevel
Prices == {PriceUnit * k : k \in Levels}
\* wall-clock hours datetime.utcnow() can return during a run
ClockHours == {0, 10}
\* volume ratios, in hundredths
VolumeRatios == {100}
\* signal strengths, in hundredths
Strengths == {90}
\* results of the position sizer: a multiple of the step size, or None
Quantities == {StepSize}
\* stop-loss / take-profit proposals of the strategy, as signed offsets from
\* the bar close towards the profit side, in twentieths of a level:
\* a wide setup, a tight one with R:R 1, a stop on the wrong side, R:R < 1,
\* and a stop closer than 0.2 %
Tick == PriceUnit \div 20
SlTpOffsets == { <<-20, 30>>, <<-5, 5>>, <<5, 10>>, <<-20, 10>>, <<-3, 6>> }
\* the sizer's "no size"
NoSize == 0

Abs(x) == IF x < 0 THEN -x ELSE x

\* ------------------------------------------------------- slippage model
hourly_spreads ==
    [h \in 0..23 |->
        CASE h \in {0, 1, 2, 23} -> 8
          [] h \in {3, 4, 5, 22} -> 7
          [] h \in {6, 7, 21} -> 6
          [] h \in {8, 19, 20} -> 5
          [] h \in {9, 13, 17, 18} -> 4
          [] OTHER -> 3]

\* timestamp is None at every call of the engine: the hour is the wall clock's
_get_hourly_spread(clock) ==
    IF clock \in DOMAIN hourly_spreads THEN hourly_spreads[clock] ELSE DefaultSpread

\* tenths
_get_volume_multiplier(volume_ratio) ==
    IF volume_ratio >= 200 THEN 7
    ELSE IF volume_ratio >= 150 THEN 8
    ELSE IF volume_ratio >= 120 THEN 9
    ELSE IF volume_ratio >= 80 THEN 10
    ELSE IF volume_ratio >= 50 THEN 13
    ELSE 18

\* tenths
_get_regime_multiplier(regime) ==
    CASE regime \in {"TRENDING_UP", "TRENDING_DOWN"} -> 10
      [] regime = "RANGING" -> 9
      [] regime = "HIGH_VOLATILITY" -> 15
      [] regime = "BREAKOUT_FORMING" -> 14
      [] OTHER -> 10

Max2(a, b) == IF a >= b THEN a ELSE b
Min2(a, b) == IF a <= b THEN a ELSE b

\* 1e-3 * 1e-1 * 1e-1 = 1e-5 = 1/SlipDen
_calculate_slippage(volume_ratio, regime, clock) ==
    LET slippage == _get_hourly_spread(clock)
                    * _get_volume_multiplier(volume_ratio)
                    * _get_regime_multiplier(regime)
    IN  Min2(Max2(slippage, SlippageMin), SlippageMax)

\* price * slippage_pct, the product taken in two parts to stay in range
Slipped(price, slippage_pct) ==
    (price \div SlipDen) * slippage_pct + ((price % SlipDen) * slippage_pct) \div SlipDen

apply_entry_slippage(price, side, volume_ratio, regime, clock) ==
    LET slippage_pct == _calculate_slippage(volume_ratio, regime, clock)
    IN  IF side = "BUY"
        THEN price + Slipped(price, slippage_pct)
        ELSE price - Slipped(price, slippage_pct)

\* the exit moved the way an entry is
apply_exit_slippage_as_entry(price, side, volume_ratio, regime, clock) ==
    LET slippage_pct == _calculate_slippage(volume_ratio, regime, clock)
    IN  IF side = "BUY"
        THEN price + Slipped(price, slippage_pct)
        ELSE price - Slipped(price, slippage_pct)

apply_exit_slippage(price, side, volume_ratio, regime, clock) ==
    LET slippage_pct == _calculate_slippage(volume_ratio, regime, clock)
    IN  IF side = "BUY"
        THEN price - Slipped(price, slippage_pct)
        ELSE price + Slipped(price, slippage_pct)

\* the entry _record_slippage appends (its wall-clock timestamp left out)
_record_slippage(history, slippage_pct, side, type_) ==
    Append(history, [slippage_pct |-> slippage_pct, side |-> side, type |-> type_])

\* ------------------------------------------------------------- engine
VARIABLES engine, replica, vt_in, vt_out, ps_in, ps_out, es_calls, sm_in, sm_out, md_in, md_out, tracker
vars == <<engine, replica, vt_in, vt_out, ps_in, ps_out, es_calls, sm_in, sm_out, md_in, md_out, tracker>>

\* the variables of the ensemble, the slippage model, the regime detector and
\* the order tracker, each exercised by a specification of its own
others == <<es_calls, sm_in, sm_out, md_in, md_out, tracker>>

\* BacktestEngine.__init__, with the frame of run_backtest (pc, i, the regime
\* detected on the bar in hand, the exception caught while the bar's entry was
\* evaluated, the risk multiplier of the last sizing, the value returned) and the hour the wall clock shows while the run executes
NewEngine(clock) ==
    [ clock             |-> clock,
      initial_capital   |-> InitialCapital,
      closed_trades_pnl |-> 0,
      max_drawdown      |-> MAX_DRAWDOWN,
      peak_equity       |-> InitialCapital,
      peak_daily_equity |-> InitialCapital,
      stop_trading      |-> FALSE,
      trades            |-> <<>>,
      current_position  |-> None,
      equity_history    |-> <<>>,
      current_price     |-> 0,
      slippage_history  |-> <<>>,
      partial_exits     |-> <<>>,
      errors            |-> <<>>,
      caught            |-> "None",
      risk_multiplier   |-> 0,
      regime            |-> "None",
      result            |-> None,
      pc                |-> "loop",
      i                 |-> 0 ]

\* Position.calculate_pnl
calculate_pnl(position, current_price) ==
    IF position.side = "BUY"
    THEN (current_price - position.entry_price) * position.current_quantity
    ELSE (position.entry_price - current_price) * position.current_quantity

\* the open position left out of the capital
current_capital_realized(e) == e.initial_capital + e.closed_trades_pnl

current_capital(e) ==
    LET unrealized_pnl == IF e.current_position # None
                          THEN calculate_pnl(e.current_position, e.current_price)
                          ELSE 0
    IN  e.initial_capital + e.closed_trades_pnl + unrealized_pnl

current_equity(e) == current_capital(e)

\* an R:R of exactly 1 refused as well
RrBelowOne_strict(risk, reward) == IF risk > 0 THEN reward <= risk ELSE TRUE

\* rr = reward / risk if risk > 0 else 0, compared with 1.0
RrBelowOne(risk, reward) == IF risk > 0 THEN reward < risk ELSE TRUE

validate_trade(side, entry, sl, tp) ==
    LET risk   == Abs(entry - sl)
        reward == Abs(tp - entry)
    IN  IF side = "BUY" /\ sl >= entry THEN FALSE
        ELSE IF side = "BUY" /\ tp <= entry THEN FALSE
        ELSE IF side # "BUY" /\ sl <= entry THEN FALSE
        ELSE IF side # "BUY" /\ tp >= entry THEN FALSE
        ELSE IF RrBelowOne(risk, reward) THEN FALSE
        ELSE IF risk * MinSlDen < entry * MinSlDistance THEN FALSE
        ELSE TRUE

\* the exit fill of a leg, with the volume ratio 1.0 the engine passes
ExitFill(position, exit_price, clock) ==
    apply_exit_slippage(exit_price, position.side, 100, position.regime, clock)

\* the remaining quantity left as it was
ReduceQuantity_none(e, exit_quantity) == e

\* position.current_quantity -= exit_quantity
ReduceQuantity(e, exit_quantity) ==
    [e EXCEPT !.current_position.current_quantity = @ - exit_quantity]

_partial_exit(e, exit_quantity, exit_price, timestamp, reason, clock) ==
    LET position == e.current_position
        exit_with_slippage == ExitFill(position, exit_price, clock)
        pnl == IF position.side = "BUY"
               THEN (exit_with_slippage - position.entry_price) * exit_quantity
               ELSE (position.entry_price - exit_with_slippage) * exit_quantity
        e1 == [e EXCEPT
                  !.slippage_history = _record_slippage(@,
                      _calculate_slippage(100, position.regime, clock), position.side, "EXIT"),
                  !.closed_trades_pnl = @ + pnl]
        e2 == ReduceQuantity(e1, exit_quantity)
    IN  [e2 EXCEPT
            !.partial_exits = Append(@, [reason |-> reason,
                                         exit_quantity |-> exit_quantity,
                                         exit_price |-> exit_with_slippage,
                                         pnl |-> pnl,
                                         timestamp |-> timestamp])]

_close_position(e, exit_price, timestamp, reason, clock) ==
    LET position == e.current_position
        exit_with_slippage == ExitFill(position, exit_price, clock)
        pnl == IF position.side = "BUY"
               THEN (exit_with_slippage - position.entry_price) * position.current_quantity
               ELSE (position.entry_price - exit_with_slippage) * position.current_quantity
        trade == [ side            |-> position.side,
                   entry_time      |-> position.entry_time,
                   entry_price     |-> position.entry_price,
                   entry_quantity  |-> position.entry_quantity,
                   stop_loss       |-> position.stop_loss,
                   take_profit     |-> position.take_profit,
                   exit_time       |-> timestamp,
                   exit_price      |-> exit_with_slippage,
                   exit_quantity   |-> position.current_quantity,
                   exit_reason     |-> reason,
                   pnl             |-> pnl,
                   signal_strength |-> position.signal_strength,
                   regime          |-> position.regime,
                   duration_seconds |-> timestamp - position.entry_time,
                   winning         |-> pnl > 0 ]
    IN  [e EXCEPT
            !.slippage_history = _record_slippage(@,
                _calculate_slippage(100, position.regime, clock), position.side, "EXIT"),
            !.closed_trades_pnl = @ + pnl,
            !.trades = Append(@, trade),
            !.current_position = None]

\* current_quantity * ratio
ExitQuantity(position, ratio) == (position.current_quantity * ratio) \div PctDen

\* the stop left where it was after the TP1 exit
PromoteStop_none(e, position) == e

\* position.stop_loss = position.entry_price after the TP1 exit
PromoteStop(e, position) ==
    [e EXCEPT !.current_position.stop_loss = position.entry_price]

\* "if" in place of "elif" after the TP1 branch: TP2 can fire on the same bar
_monitor_position_fallthrough(e, current_price, timestamp, clock) ==
    LET position == e.current_position
        buy      == position.side = "BUY"
        stopped  == IF buy THEN current_price <= position.stop_loss
                    ELSE current_price >= position.stop_loss
        beyond(level) == IF buy THEN current_price >= level ELSE current_price <= level
        a == IF ~position.tp1_hit /\ beyond(position.tp1)
             THEN PromoteStop(
                      _partial_exit([e EXCEPT !.current_position.tp1_hit = TRUE],
                                    ExitQuantity(position, TP1_EXIT_RATIO),
                                    current_price, timestamp, "TP1", clock),
                      position)
             ELSE e
        b == IF ~position.tp2_hit /\ beyond(position.tp2)
             THEN _partial_exit([a EXCEPT !.current_position.tp2_hit = TRUE],
                                ExitQuantity(a.current_position, TP2_EXIT_RATIO),
                                current_price, timestamp, "TP2", clock)
             ELSE IF a = e /\ ~position.tp3_hit /\ beyond(position.take_profit)
             THEN _close_position(e, current_price, timestamp, "TP3", clock)
             ELSE a
    IN  IF stopped
        THEN _close_position(e, current_price, timestamp, "Stop Loss", clock)
        ELSE b

_monitor_position(e, current_price, timestamp, clock) ==
    LET position == e.current_position
    IN  IF position.side = "BUY" /\ current_price <= position.stop_loss
        THEN _close_position(e, current_price, timestamp, "Stop Loss", clock)
        ELSE IF position.side # "BUY" /\ current_price >= position.stop_loss
        THEN _close_position(e, current_price, timestamp, "Stop Loss", clock)
        ELSE IF position.side = "BUY"
        THEN IF ~position.tp1_hit /\ current_price >= position.tp1
             THEN LET e1 == [e EXCEPT !.current_position.tp1_hit = TRUE]
                      e2 == _partial_exit(e1, ExitQuantity(position, TP1_EXIT_RATIO),
                                          current_price, timestamp, "TP1", clock)
                  IN  PromoteStop(e2, position)
             ELSE IF ~position.tp2_hit /\ current_price >= position.tp2
             THEN LET e1 == [e EXCEPT !.current_position.tp2_hit = TRUE]
                  IN  _partial_exit(e1, ExitQuantity(position, TP2_EXIT_RATIO),
                                    current_price, timestamp, "TP2", clock)
             ELSE IF ~position.tp3_hit /\ current_price >= position.take_profit
             THEN _close_position(e, current_price, timestamp, "TP3", clock)
             ELSE e
        ELSE IF ~position.tp1_hit /\ current_price <= position.tp1
             THEN LET e1 == [e EXCEPT !.current_position.tp1_hit = TRUE]
                      e2 == _partial_exit(e1, ExitQuantity(position, TP1_EXIT_RATIO),
                                          current_price, timestamp, "TP1", clock)
                  IN  PromoteStop(e2, position)
             ELSE IF ~position.tp2_hit /\ current_price <= position.tp2
             THEN LET e1 == [e EXCEPT !.current_position.tp2_hit = TRUE]
                  IN  _partial_exit(e1, ExitQuantity(position, TP2_EXIT_RATIO),
                                    current_price, timestamp, "TP2", clock)
             ELSE IF ~position.tp3_hit /\ current_price <= position.take_profit
             THEN _close_position(e, current_price, timestamp, "TP3", clock)
             ELSE e

\* ------------------------------------------------- MarketRegimeDetector
\* Units of the metrics: volatility_pct in hundredths of a percent point,
\* trend_strength in thousandths, trend_consistent in tenths, adx in whole
\* points, the band widths in a common unit.  A metric that came out as NaN
\* is the value NaN; every comparison with it is false, as for a float.
NaN == -1000000
Greater(value, limit) == value # NaN /\ limit # NaN /\ value > limit
Less(value, limit) == value # NaN /\ limit # NaN /\ value < limit
\* bb_width < bb_width_ma * 0.5 is compared as 2 * bb_width < bb_width_ma
Double(value) == IF value = NaN THEN NaN ELSE 2 * value

\* the trend checks made before the volatility check
_classify_regime_trend_first(metrics) ==
    IF Greater(metrics.trend_strength, 30) /\ Greater(metrics.trend_consistent, 7)
           /\ Greater(metrics.adx, 25)
    THEN "TRENDING_UP"
    ELSE IF Less(metrics.trend_strength, -30) /\ Less(metrics.trend_consistent, 3)
           /\ Greater(metrics.adx, 25)
    THEN "TRENDING_DOWN"
    ELSE IF Greater(metrics.volatility_pct, 150) /\ metrics.volatility_increasing
    THEN "HIGH_VOLATILITY"
    ELSE IF Less(Double(metrics.bb_width), metrics.bb_width_ma)
           /\ metrics.volume_increasing
    THEN "BREAKOUT_FORMING"
    ELSE "RANGING"

_classify_regime(metrics) ==
    IF Greater(metrics.volatility_pct, 150) /\ metrics.volatility_increasing
    THEN "HIGH_VOLATILITY"
    ELSE IF Greater(metrics.trend_strength, 30) /\ Greater(metrics.trend_consistent, 7)
           /\ Greater(metrics.adx, 25)
    THEN "TRENDING_UP"
    ELSE IF Less(metrics.trend_strength, -30) /\ Less(metrics.trend_consistent, 3)
           /\ Greater(metrics.adx, 25)
    THEN "TRENDING_DOWN"
    ELSE IF Less(Double(metrics.bb_width), metrics.bb_width_ma)
           /\ metrics.volume_increasing
    THEN "BREAKOUT_FORMING"
    ELSE "RANGING"

\* the metrics the except clause of _calculate_regime_metrics returns
DefaultMetrics ==
    [ trend_strength |-> 0, trend_consistent |-> 5, volatility_pct |-> 100,
      volatility_increasing |-> FALSE, adx |-> 25, bb_width |-> 4, bb_width_ma |-> 4,
      volume_increasing |-> FALSE ]

\* what the indicators give on the histories passed, or that one of them raises
_calculate_regime_metrics(histories) ==
    IF histories.raises THEN DefaultMetrics ELSE histories.metrics

\* detect_regime: the regime returned and the entry appended to regime_history
detect_regime(regime_history, histories) ==
    LET metrics == _calculate_regime_metrics(histories)
        regime  == _classify_regime(metrics)
    IN  Append(regime_history, [regime |-> regime, metrics |-> metrics])

\* ------------------------------------------------ SmartScalpingEnsemble
\* Units of the ensemble: a strength in hundredths, a weight in hundredths,
\* the timeframe shares 0.7 / 0.3 in hundredths and the confirmation bonus
\* 1.15 in hundredths, so a score is counted in 1/ScoreDen.  The code adds
\* floats; the sums of the model are the exact values of those sums.
ScoreDen == 100000000
Share5m == 70
Share15m == 30
ConfirmationBonus == 115
NoBonus == 100

\* self.regime_strategies: regime -> strategy -> weight
regime_strategies ==
    [ TRENDING_UP      |-> [ema_vwap |-> 30, pullback |-> 30, ema |-> 20, vwap |-> 20],
      TRENDING_DOWN    |-> [ema_vwap |-> 30, pullback |-> 30, ema |-> 20, vwap |-> 20],
      RANGING          |-> [bollinger_rsi |-> 35, bb |-> 25, rsi |-> 25, vwap |-> 15],
      HIGH_VOLATILITY  |-> [liquidez |-> 40, bollinger_rsi |-> 30, order_flow |-> 30],
      BREAKOUT_FORMING |-> [breakout |-> 50, ema_vwap |-> 25, order_flow |-> 25] ]

\* self.regime_strategies.get(regime, self.regime_strategies['RANGING'])
active_strategies(regime) ==
    IF regime \in DOMAIN regime_strategies
    THEN regime_strategies[regime]
    ELSE regime_strategies["RANGING"]

_get_threshold_for_regime(regime) ==
    CASE regime \in {"TRENDING_UP", "TRENDING_DOWN"} -> 25 * (ScoreDen \div 100)
      [] regime = "RANGING" -> 35 * (ScoreDen \div 100)
      [] regime = "HIGH_VOLATILITY" -> 30 * (ScoreDen \div 100)
      [] regime = "BREAKOUT_FORMING" -> 40 * (ScoreDen \div 100)
      [] OTHER -> 30 * (ScoreDen \div 100)

\* what get_entry_signal of one strategy returns on the two timeframes, or
\* that it raises
NoVote == [side_5m |-> "None", strength_5m |-> 0, side_15m |-> "None", strength_15m |-> 0]
Votes ==
    { [side_5m |-> "BUY", strength_5m |-> 100, side_15m |-> "BUY", strength_15m |-> 100, raises |-> FALSE],
      [side_5m |-> "SELL", strength_5m |-> 100, side_15m |-> "SELL", strength_15m |-> 100, raises |-> FALSE],
      [side_5m |-> "BUY", strength_5m |-> 50, side_15m |-> "None", strength_15m |-> 0, raises |-> FALSE],
      [side_5m |-> "SELL", strength_5m |-> 100, side_15m |-> "BUY", strength_15m |-> 100, raises |-> FALSE],
      [side_5m |-> "None", strength_5m |-> 0, side_15m |-> "None", strength_15m |-> 0, raises |-> FALSE],
      [side_5m |-> "BUY", strength_5m |-> 100, side_15m |-> "BUY", strength_15m |-> 100, raises |-> TRUE] }

\* signals_5m[name], signals_15m[name]: the except clause stores (None, 0.0)
\* for both timeframes
CollectSignal(vote) ==
    IF vote.raises THEN NoVote
    ELSE [ side_5m |-> vote.side_5m, strength_5m |-> vote.strength_5m,
           side_15m |-> vote.side_15m, strength_15m |-> vote.strength_15m ]

\* the comparison taken as ">="
Exceeds_inclusive(score, other) == score >= other

\* score > other
Exceeds(score, other) == score > other

\* combined_strength * weight of one strategy for a side, 0 when its 5m vote
\* is not for that side
WeightedStrength(signal, weight, side) ==
    LET combined_strength == signal.strength_5m * Share5m + signal.strength_15m * Share15m
        bonus == IF signal.side_15m = side THEN ConfirmationBonus ELSE NoBonus
    IN  IF signal.side_5m = side THEN combined_strength * bonus * weight ELSE 0

RECURSIVE SumStrength(_, _, _, _)
SumStrength(names, signals, weights, side) ==
    IF names = {} THEN 0
    ELSE LET name == CHOOSE n \in names : TRUE
         IN  WeightedStrength(signals[name], weights[name], side)
             + SumStrength(names \ {name}, signals, weights, side)

\* SmartScalpingEnsemble.get_ensemble_signal, the regime being what
\* detect_regime returned and votes what the active strategies answered
get_ensemble_signal(regime, votes) ==
    LET weights       == active_strategies(regime)
        signals       == [name \in DOMAIN weights |-> CollectSignal(votes[name])]
        buy_strength  == SumStrength(DOMAIN weights, signals, weights, "BUY")
        sell_strength == SumStrength(DOMAIN weights, signals, weights, "SELL")
        details       == [ regime            |-> regime,
                           active_strategies |-> DOMAIN weights,
                           buy_strength      |-> buy_strength,
                           sell_strength     |-> sell_strength,
                           signals           |-> signals ]
        min_threshold == _get_threshold_for_regime(regime)
    IN  IF Exceeds(buy_strength, sell_strength) /\ Exceeds(buy_strength, min_threshold)
        THEN [side |-> "BUY", strength |-> buy_strength, details |-> details]
        ELSE IF Exceeds(sell_strength, buy_strength) /\ Exceeds(sell_strength, min_threshold)
        THEN [side |-> "SELL", strength |-> sell_strength, details |-> details]
        ELSE [side |-> "None", strength |-> 0, details |-> details]

\* ------------------------------------------------------ position sizer
\* Units of the sizer: a signal strength and a volume ratio in hundredths, a
\* risk multiplier in 1e-6 (the product of three tiers in hundredths), a risk
\* in 1/RiskDen, the capital in CapitalUnit dollars, prices in 1/PriceDen of a
\* dollar, a quantity in 1e-3, a notional in 1e-3 dollars.  capital * risk is
\* then a whole number of 1e-3 dollars, and every multiplier a whole number of
\* risks.
RiskDen == 400000
PriceDen == 4
CapitalUnit == 400
BASE_RISK_PER_TRADE == 8000
MAX_RISK_PER_TRADE == 12000
MIN_RISK_PER_TRADE == 6000
MIN_POSITION_SIZE_USD == 15000
MAX_POSITION_SIZE_USD == 5000000

StrengthTier(signal_strength) ==
    IF signal_strength >= 80 THEN 150
    ELSE IF signal_strength >= 60 THEN 125
    ELSE IF signal_strength >= 40 THEN 100
    ELSE 75

VolumeTier(volume_ratio) ==
    IF volume_ratio >= 150 THEN 115
    ELSE IF volume_ratio >= 120 THEN 110
    ELSE IF volume_ratio >= 80 THEN 100
    ELSE IF volume_ratio >= 50 THEN 80
    ELSE 60

RegimeTier(regime) ==
    IF regime \in {"TRENDING_UP", "TRENDING_DOWN"} THEN 110
    ELSE IF regime = "HIGH_VOLATILITY" THEN 80
    ELSE IF regime = "BREAKOUT_FORMING" THEN 70
    ELSE 100

_get_risk_multiplier(signal_strength, volume_ratio, regime) ==
    StrengthTier(signal_strength) * VolumeTier(volume_ratio) * RegimeTier(regime)

\* base_risk * risk_multiplier, then min(., max_risk), max(., min_risk)
DynamicRisk(risk_multiplier) ==
    LET dynamic_risk == (risk_multiplier * (BASE_RISK_PER_TRADE \div 1000)) \div 1000
    IN  Max2(Min2(dynamic_risk, MAX_RISK_PER_TRADE), MIN_RISK_PER_TRADE)

\* core.utils.round_down
round_down(value, step) == IF step = 0 THEN value ELSE (value \div step) * step

\* what the sizer returns: None, or a quantity
NoQuantity == <<>>
Sized(quantity) == <<quantity>>

\* symbol_filters holds stepSize and minQty in 1e-3 and minNotional in 1e-3
\* dollars.  raw_quantity is the floor of the exact quotient risk_amount /
\* stop_loss_distance / entry_price, which is what round_down keeps of the
\* Decimal quotient; a value in dollars is compared as value * PriceDen.
calculate_dynamic_position_size(capital, entry_price, stop_loss_price, symbol_filters, signal_strength, volume_ratio, regime) ==
    LET risk_multiplier    == _get_risk_multiplier(signal_strength, volume_ratio, regime)
        dynamic_risk       == DynamicRisk(risk_multiplier)
        stop_loss_distance == Abs(entry_price - stop_loss_price)
        risk_amount        == capital * dynamic_risk
        raw_quantity       == (risk_amount * PriceDen * PriceDen)
                                  \div (stop_loss_distance * entry_price)
        quantity           == round_down(raw_quantity, symbol_filters.stepSize)
        notional           == quantity * entry_price
        position_value     == quantity * entry_price
        max_quantity       == (MAX_POSITION_SIZE_USD * PriceDen) \div entry_price
    IN  IF capital <= 0 \/ entry_price <= 0 \/ stop_loss_price = entry_price
        THEN NoQuantity
        ELSE IF quantity < symbol_filters.minQty THEN NoQuantity
        ELSE IF notional < symbol_filters.minNotional * PriceDen THEN NoQuantity
        ELSE IF position_value < MIN_POSITION_SIZE_USD * PriceDen THEN NoQuantity
        ELSE IF position_value > MAX_POSITION_SIZE_USD * PriceDen
        THEN Sized(round_down(max_quantity, symbol_filters.stepSize))
        ELSE Sized(quantity)

\* every regime taken as tradeable
is_tradeable_regime_all(regime) == TRUE

\* MarketRegimeDetector.is_tradeable_regime
is_tradeable_regime(regime) == regime \in {"TRENDING_UP", "TRENDING_DOWN", "RANGING"}

\* what the collaborators of _check_entry_signal return on a bar: the ensemble's
\* side (or None) and strength, the validator's verdict, the strategy's stop
\* and target, the sizer's quantity (or NoSize), the volume ratio
SideOrNone == Sides \cup {"None"}
\* the collaborators that can raise while an entry is evaluated
SubModels == {"ensemble", "validator", "stops", "sizer"}
\* a bar on whose evaluation one collaborator raises
RaisingInputs ==
    [ side : {"BUY"}, strength : Strengths, valid : {TRUE},
      offsets : { <<-20, 30>> }, quantity : Quantities,
      volume_ratio : VolumeRatios, raises : SubModels ]
\* a signal that passes the validator and is sized, with every stop / target
\* proposal
ProposedInputs ==
    [ side : Sides, strength : Strengths, valid : {TRUE},
      offsets : SlTpOffsets, quantity : Quantities,
      volume_ratio : VolumeRatios, raises : {"None"} ]
\* no signal, a signal the validator refuses, a signal the sizer refuses
RefusedInputs ==
    [ side : SideOrNone, strength : Strengths, valid : BOOLEAN,
      offsets : { <<-20, 30>> }, quantity : Quantities \cup {NoSize},
      volume_ratio : VolumeRatios, raises : {"None"} ]
SignalInputs == ProposedInputs \cup RefusedInputs \cup RaisingInputs

\* an except clause of _check_entry_signal: the exception is bound, logged at
\* most through the logger, and the method returns
Caught(e, sub_model) == [e EXCEPT !.caught = sub_model]

\* the call of the sizer: capital, entry_price, stop_loss_price, symbol_filters,
\* signal_strength and volume_ratio are passed, regime is not, so the default
\* of the parameter applies; the quantity returned is sig.quantity
SizerCall(e, sig) ==
    [e EXCEPT !.risk_multiplier =
                 _get_risk_multiplier(sig.strength, sig.volume_ratio, "RANGING")]

\* calculate_stop_loss / calculate_take_profit of the strategy for this bar
StrategyStop(sig, current_price) ==
    IF sig.side = "BUY" THEN current_price + sig.offsets[1] * Tick
    ELSE current_price - sig.offsets[1] * Tick

StrategyTarget(sig, current_price) ==
    IF sig.side = "BUY" THEN current_price + sig.offsets[2] * Tick
    ELSE current_price - sig.offsets[2] * Tick

\* Decimal(str(float(x))) returns x for the values of at most 15 significant
\* digits that occur here
_check_entry_signal(e, timestamp, current_price, regime, sig, clock) ==
    LET side        == sig.side
        stop_loss   == StrategyStop(sig, current_price)
        take_profit == StrategyTarget(sig, current_price)
        quantity    == sig.quantity
        entry_with_slippage ==
            apply_entry_slippage(current_price, side, sig.volume_ratio, regime, clock)
        distance == Abs(take_profit - entry_with_slippage)
        tp1 == IF side = "BUY"
               THEN entry_with_slippage + (distance * TP1_PERCENTAGE) \div PctDen
               ELSE entry_with_slippage - (distance * TP1_PERCENTAGE) \div PctDen
        tp2 == IF side = "BUY"
               THEN entry_with_slippage + (distance * TP2_PERCENTAGE) \div PctDen
               ELSE entry_with_slippage - (distance * TP2_PERCENTAGE) \div PctDen
    IN  IF ~is_tradeable_regime(regime) THEN e
        ELSE IF sig.raises = "ensemble" THEN Caught(e, "ensemble")
        ELSE IF side = "None" THEN e
        ELSE IF sig.raises = "validator" THEN Caught(e, "validator")
        ELSE IF ~sig.valid THEN e
        ELSE IF sig.raises = "stops" THEN Caught(e, "stops")
        ELSE IF ~validate_trade(side, current_price, stop_loss, take_profit) THEN e
        ELSE IF sig.raises = "sizer" THEN Caught(e, "sizer")
        ELSE IF quantity = NoSize THEN SizerCall(e, sig)
        ELSE [SizerCall(e, sig) EXCEPT
                !.slippage_history = _record_slippage(@,
                    _calculate_slippage(sig.volume_ratio, regime, clock), side, "ENTRY"),
                !.current_position =
                    [ side             |-> side,
                      entry_price      |-> entry_with_slippage,
                      entry_quantity   |-> quantity,
                      current_quantity |-> quantity,
                      stop_loss        |-> stop_loss,
                      take_profit      |-> take_profit,
                      tp1              |-> tp1,
                      tp1_hit          |-> FALSE,
                      tp2              |-> tp2,
                      tp2_hit          |-> FALSE,
                      tp3              |-> take_profit,
                      tp3_hit          |-> FALSE,
                      entry_time       |-> timestamp,
                      signal_strength  |-> sig.strength,
                      regime           |-> regime ]]

\* ">=" in place of ">"
DrawdownExceeds_inclusive(drawdown, limit) ==
    \/ drawdown.num > (drawdown.den \div PctDen) * limit
                       + ((drawdown.den % PctDen) * limit) \div PctDen
    \/ /\ (drawdown.den % PctDen) * limit % PctDen = 0
       /\ drawdown.num = (drawdown.den \div PctDen) * limit
                          + ((drawdown.den % PctDen) * limit) \div PctDen

\* drawdown > max_drawdown, the quotient num / den against limit / PctDen
DrawdownExceeds(drawdown, limit) ==
    drawdown.num > (drawdown.den \div PctDen) * limit
                   + ((drawdown.den % PctDen) * limit) \div PctDen

\* the peak follows the equity down as well
RunningPeak_last(peak, current_eq) == current_eq

\* if current_eq > peak: peak = current_eq
RunningPeak(peak, current_eq) == IF current_eq > peak THEN current_eq ELSE peak

_record_equity(e, timestamp, regime) ==
    LET current_eq == current_equity(e)
        peak       == RunningPeak(e.peak_equity, current_eq)
        peak_daily == RunningPeak(e.peak_daily_equity, current_eq)
        drawdown   == IF peak > 0 THEN [num |-> peak - current_eq, den |-> peak]
                      ELSE [num |-> 0, den |-> 1]
    IN  [e EXCEPT
            !.peak_equity = peak,
            !.peak_daily_equity = peak_daily,
            !.stop_trading = IF DrawdownExceeds(drawdown, e.max_drawdown) THEN TRUE ELSE @,
            !.equity_history = Append(@, [ timestamp |-> timestamp,
                                           equity    |-> current_eq,
                                           capital   |-> e.closed_trades_pnl + e.initial_capital,
                                           drawdown  |-> drawdown ])]

\* ------------------------------------------------------- run_backtest
\* the loop without its "if self.stop_trading: break"
LoopContinues_ignore(e) == e.pc = "loop" /\ e.i < MaxBars

\* the loop goes on: a bar is left and the kill-switch has not fired
LoopContinues(e) == e.pc = "loop" /\ ~e.stop_trading /\ e.i < MaxBars

\* one pass of the loop body with a position open
MonitorStep(e, price, regime, clock) ==
    LET e0 == [e EXCEPT !.current_price = price, !.regime = regime]
        e1 == _monitor_position(e0, price, e.i, clock)
    IN  [_record_equity(e1, e.i, regime) EXCEPT !.i = e.i + 1]

\* one pass of the loop body without a position
EntryStep(e, price, regime, sig, clock) ==
    LET e0 == [e EXCEPT !.current_price = price, !.regime = regime]
        e1 == _check_entry_signal([e0 EXCEPT !.caught = "None"], e.i, price, regime, sig, clock)
    IN  [_record_equity(e1, e.i, regime) EXCEPT !.i = e.i + 1]

\* the data holds MaxBars bars after the warm-up offset: df_5m.index[-1]
LastIndex == MaxBars - 1

\* the run ends with the position left open
FinalCloseStep_keep(e, clock) == [e EXCEPT !.pc = "results"]

\* the final close after the loop
FinalCloseStep(e, clock) ==
    LET e1 == IF e.current_position # None
              THEN _close_position(e, e.current_price, LastIndex, "Fim do backtest", clock)
              ELSE e
    IN  [e1 EXCEPT !.pc = "results"]

RECURSIVE SumPnl(_)
SumPnl(trades) == IF trades = <<>> THEN 0 ELSE Head(trades).pnl + SumPnl(Tail(trades))

\* a / b < c / d for a, c >= 0 and b, d > 0, by the whole parts and then the
\* remainders, without forming a product
RECURSIVE FractionLess(_, _, _, _)
FractionLess(a, b, c, d) ==
    IF a \div b # c \div d THEN a \div b < c \div d
    ELSE IF c % d = 0 THEN FALSE
    ELSE IF a % b = 0 THEN TRUE
    ELSE FractionLess(d, c % d, b, a % b)

\* df_equity['drawdown'].min()
RECURSIVE MinOfDrawdowns(_)
MinOfDrawdowns(samples) ==
    IF Len(samples) = 1 THEN Head(samples).drawdown
    ELSE LET rest == MinOfDrawdowns(Tail(samples))
             first == Head(samples).drawdown
         IN  IF FractionLess(rest.num, rest.den, first.num, first.den) THEN rest ELSE first

\* the report _generate_results returns (win_rate, avg_win, avg_loss,
\* profit_factor and sharpe_ratio, derived from these figures, left out);
\* total_return_pct is 100 times the quotient num / den
_generate_results(e) ==
    IF e.trades = <<>>
    THEN [error |-> "Nenhum trade executado"]
    ELSE [ total_trades     |-> Len(e.trades),
           winning_trades   |-> Len(SelectSeq(e.trades, LAMBDA t : t.winning)),
           losing_trades    |-> Len(SelectSeq(e.trades, LAMBDA t : ~t.winning)),
           total_pnl        |-> SumPnl(e.trades),
           initial_capital  |-> e.initial_capital,
           final_capital    |-> current_capital(e),
           total_return_pct |-> [ num |-> current_capital(e) - e.initial_capital,
                                  den |-> e.initial_capital ],
           max_drawdown     |-> MinOfDrawdowns(e.equity_history),
           trades           |-> e.trades,
           equity_curve     |-> e.equity_history,
           errors           |-> e.errors ]

\* fewer than 50 bars of 15m history: the bar is skipped
WarmupBar ==
    /\ LoopContinues(engine)
    /\ engine.equity_history = <<>>
    /\ \E price \in Prices :
          engine' = [engine EXCEPT !.current_price = price, !.i = @ + 1]
    /\ UNCHANGED <<replica, vt_in, vt_out, ps_in, ps_out>>
    /\ UNCHANGED others

MonitorBar ==
    /\ LoopContinues(engine)
    /\ engine.current_position # None
    /\ \E price \in Prices, regime \in Regimes :
          engine' = MonitorStep(engine, price, regime, engine.clock)
    /\ UNCHANGED <<replica, vt_in, vt_out, ps_in, ps_out>>
    /\ UNCHANGED others

EntryBar ==
    /\ LoopContinues(engine)
    /\ engine.current_position = None
    /\ \E price \in Prices, regime \in Regimes, sig \in SignalInputs :
          engine' = EntryStep(engine, price, regime, sig, engine.clock)
    /\ UNCHANGED <<replica, vt_in, vt_out, ps_in, ps_out>>
    /\ UNCHANGED others

\* the break on the kill-switch, then the final close
BreakOnDrawdown ==
    /\ engine.pc = "loop"
    /\ engine.stop_trading
    /\ engine' = FinalCloseStep(engine, engine.clock)
    /\ UNCHANGED <<replica, vt_in, vt_out, ps_in, ps_out>>
    /\ UNCHANGED others

\* the range of the loop is exhausted, then the final close
EndOfData ==
    /\ engine.pc = "loop"
    /\ ~engine.stop_trading
    /\ engine.i = MaxBars
    /\ engine' = FinalCloseStep(engine, engine.clock)
    /\ UNCHANGED <<replica, vt_in, vt_out, ps_in, ps_out>>
    /\ UNCHANGED others

GenerateResults ==
    /\ engine.pc = "results"
    /\ engine' = [engine EXCEPT !.result = _generate_results(engine), !.pc = "done"]
    /\ UNCHANGED <<replica, vt_in, vt_out, ps_in, ps_out>>
    /\ UNCHANGED others

NoValidation == [side |-> "None", entry |-> 0, sl |-> 0, tp |-> 0]

\* the filters _check_entry_signal passes: stepSize 0.001, minQty 0.001,
\* minNotional 5.0
EngineFilters == [stepSize |-> 1, minQty |-> 1, minNotional |-> 5000]
NoSizing ==
    [ capital |-> 0, entry_price |-> 0, stop_loss_price |-> 0,
      symbol_filters |-> EngineFilters, volume_ratio |-> 100, regime |-> "RANGING" ]

\* no call of the ensemble, the slippage model or the regime detector is in
\* hand and no position is tracked
OthersIdle ==
    /\ es_calls = {}
    /\ sm_in = None /\ sm_out = <<>>
    /\ md_in = None /\ md_out = <<>>
    /\ tracker = None

Init ==
    /\ \E clock \in ClockHours : engine = NewEngine(clock)
    /\ replica = engine
    /\ vt_in = NoValidation
    /\ vt_out = <<>>
    /\ ps_in = NoSizing
    /\ ps_out = {}
    /\ OthersIdle

Next ==
    \/ WarmupBar
    \/ MonitorBar
    \/ EntryBar
    \/ BreakOnDrawdown
    \/ EndOfData
    \/ GenerateResults

Spec == Init /\ [][Next]_vars

\* ---------------------------------------------- replay on two engines
\* two fresh engines are fed the same bars and the same signals; each runs
\* at its own wall-clock hour
RunBar(e, price, regime, sig, warm) ==
    IF ~LoopContinues(e) THEN e
    ELSE IF warm THEN [e EXCEPT !.current_price = price, !.i = @ + 1]
    ELSE IF e.current_position # None THEN MonitorStep(e, price, regime, e.clock)
    ELSE EntryStep(e, price, regime, sig, e.clock)

\* the signals of the replayed data: every collaborator answers
ReplaySignals ==
    { sig \in SignalInputs :
        /\ sig.raises = "None"
        /\ sig.valid
        /\ sig.quantity # NoSize
        /\ sig.offsets \in { <<-20, 30>>, <<-5, 5>> }
        /\ sig.side = "None" => sig.offsets = <<-20, 30>> }

NoSignal == CHOOSE sig \in ReplaySignals : sig.side = "None"

InitReplay ==
    /\ \E clock \in ClockHours : engine = NewEngine(clock)
    /\ \E clock \in ClockHours : replica = NewEngine(clock)
    /\ vt_in = NoValidation
    /\ vt_out = <<>>
    /\ ps_in = NoSizing
    /\ ps_out = {}
    /\ OthersIdle

ReplayWarmup ==
    /\ LoopContinues(engine) /\ LoopContinues(replica)
    /\ engine.equity_history = <<>> /\ replica.equity_history = <<>>
    /\ \E price \in Prices :
          /\ engine' = RunBar(engine, price, "RANGING", NoSignal, TRUE)
          /\ replica' = RunBar(replica, price, "RANGING", NoSignal, TRUE)
    /\ UNCHANGED <<vt_in, vt_out, ps_in, ps_out>>
    /\ UNCHANGED others

ReplayBar ==
    /\ LoopContinues(engine) \/ LoopContinues(replica)
    /\ \E price \in Prices, regime \in Regimes, sig \in ReplaySignals :
          /\ engine' = RunBar(engine, price, regime, sig, FALSE)
          /\ replica' = RunBar(replica, price, regime, sig, FALSE)
    /\ UNCHANGED <<vt_in, vt_out, ps_in, ps_out>>
    /\ UNCHANGED others

ReplayClose ==
    /\ engine.pc = "loop" /\ replica.pc = "loop"
    /\ ~LoopContinues(engine) /\ ~LoopContinues(replica)
    /\ engine' = FinalCloseStep(engine, engine.clock)
    /\ replica' = FinalCloseStep(replica, replica.clock)
    /\ UNCHANGED <<vt_in, vt_out, ps_in, ps_out>>
    /\ UNCHANGED others

ReplayResults ==
    /\ engine.pc = "results" /\ replica.pc = "results"
    /\ engine' = [engine EXCEPT !.result = _generate_results(engine), !.pc = "done"]
    /\ replica' = [replica EXCEPT !.result = _generate_results(replica), !.pc = "done"]
    /\ UNCHANGED <<vt_in, vt_out, ps_in, ps_out>>
    /\ UNCHANGED others

NextReplay ==
    \/ ReplayWarmup
    \/ ReplayBar
    \/ ReplayClose
    \/ ReplayResults

SpecReplay == InitReplay /\ [][NextReplay]_vars

\* -------------------------------------------- validate_trade on its own
ValidateEntries == {2000, 40000}
ValidateOffsets == {-1000, -500, -80, -79, 0, 79, 80, 500, 1000}
ValidateInputs ==
    { [side |-> sd, entry |-> en, sl |-> en + a, tp |-> en + b] :
        sd \in Sides, en \in ValidateEntries, a \in ValidateOffsets, b \in ValidateOffsets }

InitValidate ==
    /\ engine = NewEngine(0)
    /\ replica = engine
    /\ vt_in \in ValidateInputs
    /\ vt_out = <<>>
    /\ ps_in = NoSizing
    /\ ps_out = {}
    /\ OthersIdle

Validate ==
    /\ vt_out = <<>>
    /\ vt_out' = <<validate_trade(vt_in.side, vt_in.entry, vt_in.sl, vt_in.tp)>>
    /\ UNCHANGED <<engine, replica, vt_in, ps_in, ps_out>>
    /\ UNCHANGED others

NextValidate == Validate

SpecValidate == InitValidate /\ [][NextValidate]_vars

\* ------------------------------ calculate_dynamic_position_size on its own
\* 10 000 and 1 000 000 dollars
SizerCapitals == {25, 2500}
\* entry price and stop price, in quarters of a dollar: 40000 / 39500,
\* 40000 / 39600, 40000 / 39000, 6000 / 5995, 2000 / 1990, 100 / 99, 100 / 101,
\* 100 / 100, 0.5 / 0.25, 0.25 / 0.5
SizerSetups ==
    { <<160000, 158000>>, <<160000, 158400>>, <<160000, 156000>>, <<24000, 23980>>,
      <<8000, 7960>>, <<400, 396>>, <<400, 404>>, <<400, 400>>, <<2, 1>>, <<1, 2>> }
\* the filters of the engine, and a symbol traded in whole units
SizerFilters == { EngineFilters, [stepSize |-> 1000, minQty |-> 1000, minNotional |-> 5000] }
SizerVolumeRatios == {60, 100}
SizerRegimes == {"RANGING", "TRENDING_UP"}
SizerStrengths == {30, 80, 90}
SizerInputs ==
    { [ capital |-> c, entry_price |-> su[1], stop_loss_price |-> su[2],
        symbol_filters |-> f, volume_ratio |-> vr, regime |-> r ] :
        c \in SizerCapitals, su \in SizerSetups, f \in SizerFilters,
        vr \in SizerVolumeRatios, r \in SizerRegimes }

InitSizer ==
    /\ engine = NewEngine(0)
    /\ replica = engine
    /\ vt_in = NoValidation
    /\ vt_out = <<>>
    /\ ps_in \in SizerInputs
    /\ ps_out = {}
    /\ OthersIdle

\* one call of the sizer on the inputs, with a strength not yet tried
Size ==
    /\ \E signal_strength \in SizerStrengths :
          /\ \A call \in ps_out : call.signal_strength # signal_strength
          /\ ps_out' = ps_out \cup
                { [ signal_strength |-> signal_strength,
                    result |-> calculate_dynamic_position_size(
                                   ps_in.capital, ps_in.entry_price, ps_in.stop_loss_price,
                                   ps_in.symbol_filters, signal_strength,
                                   ps_in.volume_ratio, ps_in.regime) ] }
    /\ UNCHANGED <<engine, replica, vt_in, vt_out, ps_in>>
    /\ UNCHANGED others

NextSizer == Size

SpecSizer == InitSizer /\ [][NextSizer]_vars

\* ------------------------------------------ get_ensemble_signal on its own
\* the regimes detect_regime returns on the calls tried
EnsembleRegimes == {"TRENDING_UP", "BREAKOUT_FORMING"}

InitEnsemble ==
    /\ engine = NewEngine(0)
    /\ replica = engine
    /\ vt_in = NoValidation
    /\ vt_out = <<>>
    /\ ps_in = NoSizing
    /\ ps_out = {}
    /\ OthersIdle

\* one call of the ensemble, under a regime not yet tried
Ensemble ==
    /\ \E regime \in EnsembleRegimes :
          /\ \A call \in es_calls : call.regime # regime
          /\ \E votes \in [DOMAIN active_strategies(regime) -> Votes] :
                es_calls' = es_calls \cup
                    { [ regime |-> regime,
                        votes  |-> votes,
                        result |-> get_ensemble_signal(regime, votes) ] }
    /\ UNCHANGED <<engine, replica, vt_in, vt_out, ps_in, ps_out>>
    /\ UNCHANGED <<sm_in, sm_out, md_in, md_out, tracker>>

NextEnsemble == Ensemble

SpecEnsemble == InitEnsemble /\ [][NextEnsemble]_vars

\* ------------------------------------ get_ensemble_signal called repeatedly
MaxCalls == 2
\* a confirmed vote, an unconfirmed one, and no vote
RepeatVotes == { vote \in Votes : ~vote.raises /\ vote.side_5m # "SELL" }

\* one more call of the ensemble, on the bar in hand
EnsembleAgain ==
    /\ Cardinality(es_calls) < MaxCalls
    /\ \E regime \in EnsembleRegimes :
          \E votes \in [DOMAIN active_strategies(regime) -> RepeatVotes] :
                es_calls' = es_calls \cup
                    { [ regime |-> regime,
                        votes  |-> votes,
                        result |-> get_ensemble_signal(regime, votes) ] }
    /\ UNCHANGED <<engine, replica, vt_in, vt_out, ps_in, ps_out>>
    /\ UNCHANGED <<sm_in, sm_out, md_in, md_out, tracker>>

NextEnsembleRepeat == EnsembleAgain

SpecEnsembleRepeat == InitEnsemble /\ [][NextEnsembleRepeat]_vars

\* ------------------------------------------- the slippage model on its own
\* reference prices: whole multiples of SlipDen, so that price * slippage is a
\* whole number as the Decimal product is exact
SlippagePrices == { SlipDen * k : k \in {1, 7, 4000, 20000} }
SlippageVolumeRatios == {30, 60, 100, 130, 160, 250}
SlippageRegimes ==
    {"TRENDING_UP", "TRENDING_DOWN", "RANGING", "HIGH_VOLATILITY", "BREAKOUT_FORMING", "UNKNOWN"}
\* the hour of the timestamp passed, or of the wall clock when none is
SlippageHours == 0..23
SlippageInputs ==
    [ price : SlippagePrices, side : Sides, volume_ratio : SlippageVolumeRatios,
      regime : SlippageRegimes, hour : SlippageHours ]

InitSlippage ==
    /\ engine = NewEngine(0)
    /\ replica = engine
    /\ vt_in = NoValidation
    /\ vt_out = <<>>
    /\ ps_in = NoSizing
    /\ ps_out = {}
    /\ es_calls = {}
    /\ sm_in \in SlippageInputs
    /\ sm_out = <<>>
    /\ md_in = None /\ md_out = <<>>
    /\ tracker = None

\* sm_out: the calls made so far, each with the price it returned and the
\* entry it left in slippage_history
ApplyEntry ==
    /\ \A call \in DOMAIN sm_out : sm_out[call].type # "ENTRY"
    /\ sm_out' = Append(sm_out,
          [ type |-> "ENTRY",
            slipped_price |-> apply_entry_slippage(sm_in.price, sm_in.side,
                                  sm_in.volume_ratio, sm_in.regime, sm_in.hour),
            slippage_pct |-> _calculate_slippage(sm_in.volume_ratio, sm_in.regime, sm_in.hour) ])
    /\ UNCHANGED <<engine, replica, vt_in, vt_out, ps_in, ps_out>>
    /\ UNCHANGED <<es_calls, sm_in, md_in, md_out, tracker>>

ApplyExit ==
    /\ \A call \in DOMAIN sm_out : sm_out[call].type # "EXIT"
    /\ sm_out' = Append(sm_out,
          [ type |-> "EXIT",
            slipped_price |-> apply_exit_slippage(sm_in.price, sm_in.side,
                                  sm_in.volume_ratio, sm_in.regime, sm_in.hour),
            slippage_pct |-> _calculate_slippage(sm_in.volume_ratio, sm_in.regime, sm_in.hour) ])
    /\ UNCHANGED <<engine, replica, vt_in, vt_out, ps_in, ps_out>>
    /\ UNCHANGED <<es_calls, sm_in, md_in, md_out, tracker>>

NextSlippage ==
    \/ ApplyEntry
    \/ ApplyExit

SpecSlippage == InitSlippage /\ [][NextSlippage]_vars

\* ------------------------------------------- the regime detector on its own
MetricValues ==
    [ trend_strength : {-31, -30, 0, 30, 31, NaN}, trend_consistent : {2, 3, 5, 7, 8},
      volatility_pct : {100, 150, 151, NaN}, volatility_increasing : BOOLEAN,
      adx : {25, 26}, bb_width : {1, 2, NaN}, bb_width_ma : {4, NaN},
      volume_increasing : BOOLEAN ]
DetectorInputs ==
    { [raises |-> FALSE, metrics |-> metrics] : metrics \in MetricValues }
        \cup { [raises |-> TRUE, metrics |-> DefaultMetrics] }

InitDetector ==
    /\ engine = NewEngine(0)
    /\ replica = engine
    /\ vt_in = NoValidation
    /\ vt_out = <<>>
    /\ ps_in = NoSizing
    /\ ps_out = {}
    /\ es_calls = {}
    /\ sm_in = None /\ sm_out = <<>>
    /\ md_in \in DetectorInputs
    /\ md_out = <<>>
    /\ tracker = None

\* md_out is the detector's regime_history
DetectRegime ==
    /\ md_out = <<>>
    /\ md_out' = detect_regime(md_out, md_in)
    /\ UNCHANGED <<engine, replica, vt_in, vt_out, ps_in, ps_out>>
    /\ UNCHANGED <<es_calls, sm_in, sm_out, md_in, tracker>>

NextDetector == DetectRegime

SpecDetector == InitDetector /\ [][NextDetector]_vars

\* ------------------------------------------------ the live order tracker
\* Prices are counted in thousandths of a dollar and quantities in
\* millionths of a coin; the setups below keep every product of the path
\* (a share of a distance, a share of a quantity, price x (1 -+ 0.003)) whole.
TRAILING_STOP_ACTIVATION == 5
TRAILING_STOP_DISTANCE == 3
TrailDen == 1000

\* Position as execute_entry creates it, __post_init__ included
NewPosition(side, entry_price, quantity, stop_loss, take_profit) ==
    LET distance == Abs(take_profit - entry_price)
        towards  == IF side = "BUY" THEN 1 ELSE -1
    IN  [ side             |-> side,
          entry_price      |-> entry_price,
          quantity         |-> quantity,
          stop_loss        |-> stop_loss,
          take_profit      |-> take_profit,
          tp1              |-> entry_price + towards * ((distance * TP1_PERCENTAGE) \div PctDen),
          tp2              |-> entry_price + towards * ((distance * TP2_PERCENTAGE) \div PctDen),
          tp3              |-> take_profit,
          tp1_hit          |-> FALSE,
          tp2_hit          |-> FALSE,
          tp3_hit          |-> FALSE,
          current_quantity |-> quantity ]

\* TradeExecutorV2 after one execute_entry: the position manager's positions
\* (at most one, the model tracks one symbol), the executed entry, and the
\* exit orders the exchange has accepted, oldest first
NewTracker(position) ==
    [ positions       |-> <<position>>,
      executed_trades |-> << [side |-> position.side, quantity |-> position.quantity] >>,
      exit_orders     |-> <<>> ]

\* Position.update_stop_loss: the stop only moves towards the profit side
update_stop_loss(position, new_stop_loss) ==
    IF position.side = "BUY"
    THEN IF new_stop_loss > position.stop_loss
         THEN [position EXCEPT !.stop_loss = new_stop_loss] ELSE position
    ELSE IF new_stop_loss < position.stop_loss
         THEN [position EXCEPT !.stop_loss = new_stop_loss] ELSE position

\* has the price reached the level on the position's profit side
Reached(position, current_price, level) ==
    IF position.side = "BUY" THEN current_price >= level ELSE current_price <= level

\* Position.check_take_profit_levels: the first level not yet hit that the
\* price has reached is marked hit and returned
check_take_profit_levels(position, current_price) ==
    IF ~position.tp1_hit /\ Reached(position, current_price, position.tp1)
    THEN [position |-> [position EXCEPT !.tp1_hit = TRUE], level |-> "TP1"]
    ELSE IF ~position.tp2_hit /\ Reached(position, current_price, position.tp2)
    THEN [position |-> [position EXCEPT !.tp2_hit = TRUE], level |-> "TP2"]
    ELSE IF ~position.tp3_hit /\ Reached(position, current_price, position.tp3)
    THEN [position |-> [position EXCEPT !.tp3_hit = TRUE], level |-> "TP3"]
    ELSE [position |-> position, level |-> "None"]

\* Position.partial_exit, the exit ratio given as the quotient num / den
partial_exit(position, num, den) ==
    LET exit_quantity == (position.current_quantity * num) \div den
    IN  [position EXCEPT !.current_quantity = position.current_quantity - exit_quantity]

\* the quantity execute_exit orders when it is called without one
CloseQuantity(position) == position.quantity

\* the "no quantity" argument of execute_exit; a quantity of zero is falsy too
NoExitQuantity == 0

\* answers of place_market_order: the order is accepted, or the call raises
OrderAnswers == {"FILLED", "raises"}

\* TradeExecutorV2.execute_exit
execute_exit(t, quantity, answer) ==
    IF t.positions = <<>> THEN t
    ELSE LET position == t.positions[1]
             exit_quantity == IF quantity # NoExitQuantity THEN quantity ELSE CloseQuantity(position)
         IN  IF answer = "raises" THEN t
             ELSE IF quantity # NoExitQuantity
             THEN [t EXCEPT !.exit_orders = Append(@, exit_quantity),
                            !.positions = << partial_exit(position, quantity, position.quantity) >>]
             ELSE [t EXCEPT !.exit_orders = Append(@, exit_quantity),
                            !.positions = <<>>]

\* a change of the position object in hand, seen by the position manager
\* only while it still holds the object
OnHeld(t, position) ==
    IF t.positions = <<>> THEN t ELSE [t EXCEPT !.positions = <<position>>]

\* OrderTracker._handle_take_profit for the position the manager holds
_handle_take_profit(t, tp_level, answer) ==
    LET position == t.positions[1]
    IN  IF tp_level = "TP1"
        THEN LET exit_qty == (position.current_quantity * TP1_EXIT_RATIO) \div PctDen
                 after == execute_exit(t, exit_qty, answer)
             IN  OnHeld(after, update_stop_loss(after.positions[1], position.entry_price))
        ELSE IF tp_level = "TP2"
        THEN LET exit_qty == (position.current_quantity * TP2_EXIT_RATIO) \div PctDen
             IN  execute_exit(t, exit_qty, answer)
        ELSE IF tp_level = "TP3"
        THEN execute_exit(t, NoExitQuantity, answer)
        ELSE t

\* OrderTracker._check_stop_loss
_check_stop_loss(position, current_price) ==
    IF position.side = "BUY" THEN current_price <= position.stop_loss
    ELSE current_price >= position.stop_loss

\* PositionManager.update_trailing_stops
update_trailing_stops(t, current_price) ==
    IF t.positions = <<>> THEN t
    ELSE LET position == t.positions[1]
             gain == IF position.side = "BUY" THEN current_price - position.entry_price
                     ELSE position.entry_price - current_price
         IN  IF gain * TrailDen >= TRAILING_STOP_ACTIVATION * position.entry_price
             THEN IF position.side = "BUY"
                  THEN OnHeld(t, update_stop_loss(position, (current_price * (TrailDen - TRAILING_STOP_DISTANCE)) \div TrailDen))
                  ELSE OnHeld(t, update_stop_loss(position, (current_price * (TrailDen + TRAILING_STOP_DISTANCE)) \div TrailDen))
             ELSE t

\* OrderTracker.monitor_positions for the one tracked symbol
monitor_positions(t, current_price, answer) ==
    IF t.positions = <<>> THEN t
    ELSE LET position == t.positions[1]
         IN  IF _check_stop_loss(position, current_price)
             THEN execute_exit(t, NoExitQuantity, answer)
             ELSE LET checked == check_take_profit_levels(position, current_price)
                      marked == OnHeld(t, checked.position)
                  IN  update_trailing_stops(_handle_take_profit(marked, checked.level, answer), current_price)

\* entries the executor has made: a long and a short, stop 2 % away, target 4 %
TrackerSetups ==
    { [side |-> "BUY", entry_price |-> 100000, stop_loss |-> 98000, take_profit |-> 104000],
      [side |-> "SELL", entry_price |-> 100000, stop_loss |-> 102000, take_profit |-> 96000] }
TrackerQuantities == {1000, 3000, 5000}
\* prices the exchange reports to a monitoring cycle
TrackerPrices == {96000, 97000, 98000, 100000, 102000, 103000, 104000}

InitTracker ==
    /\ engine = NewEngine(0)
    /\ replica = engine
    /\ vt_in = NoValidation
    /\ vt_out = <<>>
    /\ ps_in = NoSizing
    /\ ps_out = {}
    /\ es_calls = {}
    /\ sm_in = None /\ sm_out = <<>>
    /\ md_in = None /\ md_out = <<>>
    /\ \E setup \in TrackerSetups, quantity \in TrackerQuantities :
          tracker = NewTracker(NewPosition(setup.side, setup.entry_price, quantity,
                                           setup.stop_loss, setup.take_profit))

\* one monitoring cycle of the live loop
MonitorCycle ==
    /\ \E current_price \in TrackerPrices, answer \in OrderAnswers :
          tracker' = monitor_positions(tracker, current_price, answer)
    /\ UNCHANGED <<engine, replica, vt_in, vt_out, ps_in, ps_out>>
    /\ UNCHANGED <<es_calls, sm_in, sm_out, md_in, md_out>>

NextTracker == MonitorCycle

SpecTracker == InitTracker /\ [][NextTracker]_vars

\* =============================================================== claims
\* the legs the engine logged for the position opened on bar t0, up to bar t1
LegsBetween(e, t0, t1) ==
    SelectSeq(e.partial_exits, LAMBDA leg : t0 < leg.timestamp /\ leg.timestamp <= t1)

RECURSIVE SumQuantity(_)
SumQuantity(legs) ==
    IF legs = <<>> THEN 0 ELSE Head(legs).exit_quantity + SumQuantity(Tail(legs))

LegPnl(side, entry_price, exit_price, quantity) ==
    IF side = "BUY" THEN (exit_price - entry_price) * quantity
    ELSE (entry_price - exit_price) * quantity

RECURSIVE SumLegPnl(_, _, _)
SumLegPnl(side, entry_price, legs) ==
    IF legs = <<>> THEN 0
    ELSE LegPnl(side, entry_price, Head(legs).exit_price, Head(legs).exit_quantity)
         + SumLegPnl(side, entry_price, Tail(legs))

Last(seq) == seq[Len(seq)]

\* a bar was handled with a position open
MonitoredBar == engine.current_position # None /\ engine'.i = engine.i + 1

StopBreachedNext ==
    IF engine.current_position.side = "BUY"
    THEN engine'.current_price <= engine.current_position.stop_loss
    ELSE engine'.current_price >= engine.current_position.stop_loss

CrossedNext(level) ==
    IF engine.current_position.side = "BUY"
    THEN engine'.current_price >= level
    ELSE engine'.current_price <= level

NewTrades == Len(engine'.trades) - Len(engine.trades)
NewLegs == Len(engine'.partial_exits) - Len(engine.partial_exits)

\* C1: the pnl of every TradeLog is the sum over all the legs of its position,
\* the partial exits and the final close, of (exit fill - entry_price) x leg
\* quantity for a BUY, the sign inverted for a SELL
C1_PnlCoversAllLegs ==
    \A k \in DOMAIN engine.trades :
        LET t == engine.trades[k]
        IN  t.pnl = LegPnl(t.side, t.entry_price, t.exit_price, t.exit_quantity)
                    + SumLegPnl(t.side, t.entry_price,
                                LegsBetween(engine, t.entry_time, t.exit_time))

\* C2: entry_quantity = current_quantity + the quantities removed by partial
\* exits, for the open position and at every close; current_quantity is never
\* below 0 and never increases; the TradeLog's exit_quantity is what remained
C2_QuantityState ==
    /\ engine.current_position # None =>
          LET p == engine.current_position
          IN  /\ p.current_quantity >= 0
              /\ p.entry_quantity = p.current_quantity
                    + SumQuantity(LegsBetween(engine, p.entry_time, MaxBars))
    /\ \A k \in DOMAIN engine.trades :
          LET t == engine.trades[k]
          IN  /\ t.exit_quantity >= 0
              /\ t.entry_quantity = t.exit_quantity
                    + SumQuantity(LegsBetween(engine, t.entry_time, t.exit_time))

C2_QuantityStep ==
    /\ (engine.current_position # None /\ engine'.current_position # None) =>
          engine'.current_position.current_quantity
              <= engine.current_position.current_quantity
    /\ NewTrades > 0 =>
          /\ NewTrades = 1
          /\ engine.current_position # None
          /\ Last(engine'.trades).exit_quantity
                = engine.current_position.current_quantity

C2_QuantityConserved == [](C2_QuantityState) /\ [][C2_QuantityStep]_vars

\* a position closed after at least one partial exit
C2_Witness ==
    \E k \in DOMAIN engine.trades :
        /\ engine.trades[k].exit_quantity < engine.trades[k].entry_quantity
        /\ engine.trades[k].exit_quantity > 0

\* C3: a position just created, with its slipped entry_price, has for a BUY
\* stop_loss < entry_price < tp1 < tp2 < tp3 = take_profit and for a SELL the
\* inverse
C3_OrderedAtCreation ==
    (engine.current_position # None /\ engine.current_position.entry_time = engine.i - 1) =>
        LET p == engine.current_position
        IN  /\ p.tp3 = p.take_profit
            /\ IF p.side = "BUY"
               THEN p.stop_loss < p.entry_price /\ p.entry_price < p.tp1
                    /\ p.tp1 < p.tp2 /\ p.tp2 < p.tp3
               ELSE p.stop_loss > p.entry_price /\ p.entry_price > p.tp1
                    /\ p.tp1 > p.tp2 /\ p.tp2 > p.tp3

\* C4: a monitored bar makes at most one transition, in the order stop-loss,
\* TP1, TP2, TP3: a breached stop closes with "Stop Loss" and no take-profit
\* fires; otherwise only the first level not yet hit that the price has
\* crossed fires
C4_Step ==
    MonitoredBar =>
        LET p    == engine.current_position
            tp1  == ~p.tp1_hit /\ CrossedNext(p.tp1)
            tp2  == ~p.tp2_hit /\ CrossedNext(p.tp2)
            tp3  == ~p.tp3_hit /\ CrossedNext(p.take_profit)
        IN  /\ NewTrades + NewLegs <= 1
            /\ IF StopBreachedNext
               THEN NewTrades = 1 /\ Last(engine'.trades).exit_reason = "Stop Loss"
               ELSE IF tp1
               THEN NewLegs = 1 /\ Last(engine'.partial_exits).reason = "TP1"
                    /\ engine'.current_position.tp2_hit = p.tp2_hit
               ELSE IF tp2
               THEN NewLegs = 1 /\ Last(engine'.partial_exits).reason = "TP2"
               ELSE IF tp3
               THEN NewTrades = 1 /\ Last(engine'.trades).exit_reason = "TP3"
               ELSE NewTrades + NewLegs = 0

C4_OneTransitionPerBar == [][C4_Step]_vars

\* the bar just handled lies beyond TP3 and produced the TP1 exit only
C4_Witness ==
    /\ engine.current_position # None
    /\ engine.current_position.tp1_hit
    /\ ~engine.current_position.tp2_hit
    /\ Len(LegsBetween(engine, engine.current_position.entry_time, MaxBars)) = 1
    /\ Last(engine.partial_exits).timestamp = engine.i - 1
    /\ IF engine.current_position.side = "BUY"
       THEN engine.current_price >= engine.current_position.take_profit
       ELSE engine.current_price <= engine.current_position.take_profit

\* C5: every TradeLog closed with "TP3" belongs to a position whose TP1 and
\* TP2 exits both fired on earlier bars, TP1 before TP2; no TP2 exit without
\* an earlier TP1 exit of the same position
C5_Tp3AfterTp1Tp2 ==
    /\ \A k \in DOMAIN engine.trades :
          LET t == engine.trades[k]
              legs == LegsBetween(engine, t.entry_time, t.exit_time - 1)
          IN  t.exit_reason = "TP3" =>
                 /\ Len(legs) = 2
                 /\ legs[1].reason = "TP1" /\ legs[2].reason = "TP2"
                 /\ legs[1].timestamp < legs[2].timestamp
    /\ \A n \in DOMAIN engine.partial_exits :
          engine.partial_exits[n].reason = "TP2" =>
              /\ n > 1
              /\ engine.partial_exits[n - 1].reason = "TP1"
              /\ engine.partial_exits[n - 1].timestamp < engine.partial_exits[n].timestamp

\* C6: a bar that crosses tp1 of a position with tp1_hit false, the stop not
\* breached, leaves the position open with current_quantity reduced by
\* TP1_EXIT_RATIO of itself, tp1_hit true, stop_loss = entry_price, and the
\* trade list as it was
C6_Step ==
    (MonitoredBar /\ ~engine.current_position.tp1_hit /\ ~StopBreachedNext
         /\ CrossedNext(engine.current_position.tp1)) =>
        /\ engine'.current_position # None
        /\ engine'.current_position.current_quantity * PctDen
              = engine.current_position.current_quantity * (PctDen - TP1_EXIT_RATIO)
        /\ engine'.current_position.tp1_hit
        /\ engine'.current_position.stop_loss = engine.current_position.entry_price
        /\ engine'.trades = engine.trades

C6_Tp1Effect == [][C6_Step]_vars

\* the position right after its TP1 exit
C6_Witness ==
    /\ engine.current_position # None
    /\ engine.current_position.tp1_hit
    /\ engine.current_position.current_quantity * PctDen
          = engine.current_position.entry_quantity * (PctDen - TP1_EXIT_RATIO)
    /\ engine.current_position.stop_loss = engine.current_position.entry_price
    /\ engine.partial_exits # <<>>
    /\ Last(engine.partial_exits).timestamp = engine.i - 1
    /\ Last(engine.partial_exits).reason = "TP1"

\* C7: once stop_trading is set it stays set, no further bar is handled and
\* no position is opened
C7_Step ==
    engine.stop_trading =>
        /\ engine'.stop_trading
        /\ engine'.i = engine.i
        /\ engine'.equity_history = engine.equity_history
        /\ engine'.partial_exits = engine.partial_exits
        /\ engine.current_position = None => engine'.current_position = None
        /\ engine'.current_position \in {None, engine.current_position}

C7_KillSwitchOneWay == [][C7_Step]_vars

\* the run ended on the kill-switch with bars left
C7_Witness ==
    /\ engine.stop_trading
    /\ engine.pc = "done"
    /\ engine.i < MaxBars

\* the recorded drawdown of a sample is strictly over MAX_DRAWDOWN / PctDen,
\* that is 20 * num > 3 * den
OverLimit(sample) ==
    sample.drawdown.num > 3 * (sample.drawdown.den \div 20)
                          + (3 * (sample.drawdown.den % 20)) \div 20

AtLimit(sample) ==
    /\ sample.drawdown.den % 20 = 0
    /\ sample.drawdown.num = 3 * (sample.drawdown.den \div 20)

\* C8: stop_trading is true exactly from the first bar whose recorded
\* drawdown is strictly over max_drawdown: it is false while no sample is
\* over the limit, a drawdown equal to the limit included
C8_TripsOnFirstExcess ==
    LET h == engine.equity_history
    IN  /\ \A k \in DOMAIN h : OverLimit(h[k]) => k = Len(h)
        /\ engine.stop_trading <=> (h # <<>> /\ OverLimit(Last(h)))

\* a bar at exactly the limit went by, a later one tripped the switch
C8_Witness ==
    /\ engine.stop_trading
    /\ \E k \in DOMAIN engine.equity_history :
          /\ k < Len(engine.equity_history)
          /\ AtLimit(engine.equity_history[k])

\* C9: two fresh engines fed the same bars and signals end with the same
\* trade log and the same equity curve
C9_ReplayIdentical ==
    (engine.pc = "done" /\ replica.pc = "done") =>
        /\ engine.trades = replica.trades
        /\ engine.equity_history = replica.equity_history

\* C10: validate_trade is true exactly when the stop and the target are on
\* their sides of the entry, reward >= risk, and the stop distance is at
\* least 0.2 % of the entry
C10_ValidateExactly ==
    vt_out # <<>> =>
        LET buy == vt_in.side = "BUY"
            stop_ok    == IF buy THEN vt_in.sl < vt_in.entry ELSE vt_in.sl > vt_in.entry
            target_ok  == IF buy THEN vt_in.tp > vt_in.entry ELSE vt_in.tp < vt_in.entry
            rr_ok      == Abs(vt_in.tp - vt_in.entry) >= Abs(vt_in.entry - vt_in.sl)
            distance_ok == Abs(vt_in.entry - vt_in.sl) * 1000 >= vt_in.entry * 2
        IN  vt_out[1] <=> (stop_ok /\ target_ok /\ rr_ok /\ distance_ok)

\* BUY 40000 / 39500 / 41000 is accepted
C10_Witness ==
    /\ vt_in = [side |-> "BUY", entry |-> 40000, sl |-> 39500, tp |-> 41000]
    /\ vt_out = <<TRUE>>

\* C11: once the loop is left no position is open: a position open at the end
\* of the loop, at the end of the data or after the kill-switch, is closed
\* at the close of the last bar handled and makes exactly one TradeLog
C11_State == engine.pc \in {"results", "done"} => engine.current_position = None

C11_Step ==
    (engine.pc = "loop" /\ engine'.pc = "results") =>
        /\ engine'.current_price = engine.current_price
        /\ IF engine.current_position # None
           THEN /\ NewTrades = 1
                /\ Last(engine'.trades).entry_time = engine.current_position.entry_time
                /\ Last(engine'.trades).exit_quantity
                      = engine.current_position.current_quantity
                /\ Last(engine'.trades).exit_price
                      = apply_exit_slippage(engine.current_price,
                                            engine.current_position.side, 100,
                                            engine.current_position.regime, engine.clock)
           ELSE NewTrades = 0

C11_NoPositionAtResult == [](C11_State) /\ [][C11_Step]_vars

\* a run stopped by the kill-switch whose open position was force-closed
C11_Witness ==
    /\ engine.pc = "done"
    /\ engine.stop_trading
    /\ engine.trades # <<>>
    /\ Last(engine.trades).exit_reason = "Fim do backtest"

\* a bar was handled, past the warm-up, under a regime that is not tradeable
NonTradeableBar ==
    /\ engine'.i = engine.i + 1
    /\ Len(engine'.equity_history) = Len(engine.equity_history) + 1
    /\ engine'.regime \in {"HIGH_VOLATILITY", "BREAKOUT_FORMING"}

\* C12: on a HIGH_VOLATILITY or BREAKOUT_FORMING bar a flat engine opens no
\* position; an open position is monitored as on any bar: the stop and the
\* take-profit levels fire, and without a breached stop or a crossed level
\* nothing is closed
C12_Step ==
    NonTradeableBar =>
        IF engine.current_position = None
        THEN /\ engine'.current_position = None
             /\ NewTrades = 0
             /\ engine'.slippage_history = engine.slippage_history
        ELSE LET p == engine.current_position
                 level == IF ~p.tp1_hit THEN p.tp1
                          ELSE IF ~p.tp2_hit THEN p.tp2 ELSE p.take_profit
             IN  /\ StopBreachedNext =>
                        /\ engine'.current_position = None
                        /\ Last(engine'.trades).exit_reason = "Stop Loss"
                 /\ (~StopBreachedNext /\ CrossedNext(level)) => NewTrades + NewLegs = 1
                 /\ (~StopBreachedNext /\ ~CrossedNext(p.tp1) /\ ~CrossedNext(p.tp2)
                        /\ ~CrossedNext(p.take_profit)) =>
                        /\ NewTrades + NewLegs = 0
                        /\ engine'.current_position = p

C12_NoEntryStillMonitored == [][C12_Step]_vars

\* a take-profit exit fired on a bar that is not tradeable
C12_Witness ==
    /\ engine.regime \in {"HIGH_VOLATILITY", "BREAKOUT_FORMING"}
    /\ engine.current_position # None
    /\ engine.partial_exits # <<>>
    /\ Last(engine.partial_exits).timestamp = engine.i - 1

\* unrealized PnL of the open position at the current price, 0 when flat
Unrealized(e) ==
    IF e.current_position = None THEN 0
    ELSE LegPnl(e.current_position.side, e.current_position.entry_price,
                e.current_price, e.current_position.current_quantity)

RECURSIVE MaxEquity(_, _)
MaxEquity(floor, samples) ==
    IF samples = <<>> THEN floor
    ELSE MaxEquity(IF Head(samples).equity > floor THEN Head(samples).equity ELSE floor,
                   Tail(samples))

\* C14: peak_equity is the maximum of the initial capital and the equities
\* recorded so far; it never decreases and is never below the current equity
C14_State ==
    /\ engine.peak_equity = MaxEquity(engine.initial_capital, engine.equity_history)
    /\ engine.peak_equity >= current_equity(engine)
    /\ \A k \in DOMAIN engine.equity_history :
          engine.equity_history[k].drawdown.den
             = MaxEquity(engine.initial_capital, SubSeq(engine.equity_history, 1, k))

C14_Step == engine'.peak_equity >= engine.peak_equity

C14_PeakRunningMax == [](C14_State) /\ [][C14_Step]_vars

\* the peak rose above the initial capital and the equity fell back under it
C14_Witness ==
    /\ engine.peak_equity > engine.initial_capital
    /\ engine.equity_history # <<>>
    /\ Last(engine.equity_history).equity < engine.peak_equity
    /\ engine.pc = "loop"

\* C15: a run that went through the bar loop returns the report (trade list,
\* equity curve, figures), never an error record, a run without any closed
\* trade included
C15_ReportNotError ==
    engine.pc = "done" =>
        /\ "error" \notin DOMAIN engine.result
        /\ engine.result.trades = engine.trades
        /\ engine.result.equity_curve = engine.equity_history

\* C16: when a collaborator raises while a flat engine evaluates an entry,
\* the failure is appended to the error list, no position is opened, the
\* accumulator and the trade list stay as they were, and the loop goes on
C16_Step ==
    (engine'.i = engine.i + 1 /\ engine'.caught # "None") =>
        /\ Len(engine'.errors) = Len(engine.errors) + 1
        /\ engine'.current_position = None
        /\ engine'.closed_trades_pnl = engine.closed_trades_pnl
        /\ engine'.trades = engine.trades
        /\ engine'.pc = "loop"

C16_FailureListed == [][C16_Step]_vars

\* a position was opened on the bar just handled
Opened == engine.current_position = None /\ engine'.current_position # None

\* C17: the risk multiplier an entry is sized with is the product of the
\* strength tier, the volume tier and the regime tier of the regime detected
\* on the bar: 1.1 on a trending bar, 1 on a ranging one
C17_Step ==
    Opened =>
        \E volume_ratio \in VolumeRatios :
            engine'.risk_multiplier
               = StrengthTier(engine'.current_position.signal_strength)
                 * VolumeTier(volume_ratio) * RegimeTier(engine'.regime)

C17_SizedWithBarRegime == [][C17_Step]_vars

\* C18: a quantity the sizer returns is a positive multiple of the step size,
\* at least min_qty, with a notional of at least min_notional and a position
\* value between MIN_POSITION_SIZE_USD and MAX_POSITION_SIZE_USD, clamped or
\* not
C18_SizedWithinLimits ==
    \A call \in ps_out :
        call.result # NoQuantity =>
            LET q == call.result[1]
                f == ps_in.symbol_filters
            IN  /\ q > 0
                /\ q % f.stepSize = 0
                /\ q >= f.minQty
                /\ q * ps_in.entry_price >= f.minNotional * PriceDen
                /\ q * ps_in.entry_price >= MIN_POSITION_SIZE_USD * PriceDen
                /\ q * ps_in.entry_price <= MAX_POSITION_SIZE_USD * PriceDen

\* the smallest quantity whose value at the price reaches the amount
QuantityWorth(amount, price) == (amount * PriceDen + price - 1) \div price

\* C19: with capital > 0, entry > 0, stop # entry and a risk budget
\* capital x risk / |entry - stop| that, rounded down to the step, reaches
\* min_qty, min_notional and the minimum position value, the sizer returns a
\* positive quantity; so for capital 10000, entry 40000, stop 39500, strength
\* 0.8
C19_SizedWhenBudgetCovers ==
    \A call \in ps_out :
        LET f == ps_in.symbol_filters
            risk == DynamicRisk(_get_risk_multiplier(call.signal_strength,
                                                     ps_in.volume_ratio, ps_in.regime))
            budget == round_down(
                          (ps_in.capital * risk * PriceDen)
                              \div Abs(ps_in.entry_price - ps_in.stop_loss_price),
                          f.stepSize)
        IN  (/\ ps_in.capital > 0
             /\ ps_in.entry_price > 0
             /\ ps_in.stop_loss_price # ps_in.entry_price
             /\ budget >= f.minQty
             /\ budget >= QuantityWorth(f.minNotional, ps_in.entry_price)
             /\ budget >= QuantityWorth(MIN_POSITION_SIZE_USD, ps_in.entry_price)) =>
                /\ call.result # NoQuantity
                /\ call.result[1] > 0

\* C20: on the same inputs, when strength 0.9 and strength 0.3 are both given a
\* quantity, the one for 0.9 is strictly the greater
C20_StrongerSizedLarger ==
    \A strong \in ps_out, weak \in ps_out :
        (/\ strong.signal_strength = 90
         /\ weak.signal_strength = 30
         /\ strong.result # NoQuantity
         /\ weak.result # NoQuantity) =>
            strong.result[1] > weak.result[1]

\* C21: the exit ratios are shares of the entry quantity that sum to 1: the
\* TP1 leg takes TP1_EXIT_RATIO of it, the TP2 leg TP2_EXIT_RATIO of it, and
\* after both have fired the quantity still open is TP3_EXIT_RATIO x
\* entry_quantity
C21_ExitSharesOfEntry ==
    /\ TP1_EXIT_RATIO + TP2_EXIT_RATIO + TP3_EXIT_RATIO = PctDen
    /\ (/\ engine.current_position # None
        /\ engine.current_position.tp1_hit
        /\ engine.current_position.tp2_hit) =>
          LET p == engine.current_position
              legs == LegsBetween(engine, p.entry_time, MaxBars)
          IN  /\ \A n \in DOMAIN legs :
                    /\ legs[n].reason = "TP1" =>
                          legs[n].exit_quantity * PctDen = TP1_EXIT_RATIO * p.entry_quantity
                    /\ legs[n].reason = "TP2" =>
                          legs[n].exit_quantity * PctDen = TP2_EXIT_RATIO * p.entry_quantity
              /\ p.current_quantity * PctDen = TP3_EXIT_RATIO * p.entry_quantity

\* the sub-strategies of a call whose two timeframes both vote for the side
Agreements(call, side) ==
    Cardinality({ name \in DOMAIN call.result.details.signals :
                    /\ call.result.details.signals[name].side_5m = side
                    /\ call.result.details.signals[name].side_15m = side })

\* C22: the strength the ensemble returns lies in [0, 1], whatever the votes,
\* every active sub-strategy agreeing at full strength on both timeframes
\* included
C22_StrengthClipped ==
    \A call \in es_calls :
        call.result.strength >= 0 /\ call.result.strength <= ScoreDen

\* the tier of an agreement count: 3 or more, 2, fewer than 2
AgreementTier(agreements) == IF agreements >= 3 THEN 3 ELSE IF agreements >= 2 THEN 2 ELSE 1

\* C23: the threshold the ensemble applies to a side is adaptive in the number
\* of sub-strategies agreeing on that side: of two calls under the same regime,
\* the one whose agreement count is in a higher tier (3 or more, 2, fewer than
\* 2) is held to a strictly lower threshold
C23_ThresholdByAgreement ==
    \A one \in es_calls, other \in es_calls, side \in Sides :
        (/\ one.regime = other.regime
         /\ AgreementTier(Agreements(one, side)) > AgreementTier(Agreements(other, side))) =>
            _get_threshold_for_regime(one.result.details.regime)
               < _get_threshold_for_regime(other.result.details.regime)

\* C24: the ensemble returns BUY exactly when buy_score is strictly over
\* sell_score and strictly over the threshold, SELL exactly when sell_score is
\* strictly over buy_score and the threshold, and otherwise, equal scores
\* included however high, no side with strength 0
C24_DecisionExact ==
    \A call \in es_calls :
        LET result        == call.result
            buy_score     == result.details.buy_strength
            sell_score    == result.details.sell_strength
            min_threshold == _get_threshold_for_regime(call.regime)
        IN  /\ result.side = "BUY" <=> (buy_score > sell_score /\ buy_score > min_threshold)
            /\ result.side = "SELL" <=> (sell_score > buy_score /\ sell_score > min_threshold)
            /\ result.side = "BUY" => result.strength = buy_score
            /\ result.side = "SELL" => result.strength = sell_score
            /\ result.side \notin Sides => (result.side = "None" /\ result.strength = 0)
            /\ buy_score = sell_score => result.side = "None"

\* both scores equal and over the threshold, and no side returned
C24_Witness ==
    \E call \in es_calls :
        /\ call.result.details.buy_strength = call.result.details.sell_strength
        /\ call.result.details.buy_strength > _get_threshold_for_regime(call.regime)
        /\ call.result.side = "None"
        /\ call.result.strength = 0

\* the shift of a fill from the reference price is at least 0.1 % and at most
\* 5 % of the reference price, a whole multiple of SlipDen
ShiftWithinLimits(price, slipped_price) ==
    /\ Abs(slipped_price - price) >= (price \div SlipDen) * SlippageMin
    /\ Abs(slipped_price - price) <= (price \div SlipDen) * SlippageMax

\* C25: slippage moves the fill strictly against the trader: an entry fills
\* above the reference price for a BUY and below it for a SELL, an exit fills
\* below it for a BUY position and above it for a SELL position, and the shift
\* is between 0.1 % and 5 % of the reference price
C25_SlippageAgainstTrader ==
    \A call \in DOMAIN sm_out :
        LET fill == sm_out[call].slipped_price
        IN  /\ (sm_out[call].type = "ENTRY" /\ sm_in.side = "BUY") => fill > sm_in.price
            /\ (sm_out[call].type = "ENTRY" /\ sm_in.side = "SELL") => fill < sm_in.price
            /\ (sm_out[call].type = "EXIT" /\ sm_in.side = "BUY") => fill < sm_in.price
            /\ (sm_out[call].type = "EXIT" /\ sm_in.side = "SELL") => fill > sm_in.price
            /\ ShiftWithinLimits(sm_in.price, fill)

\* a SELL entered and left at the widest slippage of the model: thin volume,
\* high volatility, a night hour
C25_Witness ==
    /\ Len(sm_out) = 2
    /\ sm_in.side = "SELL"
    /\ sm_in.volume_ratio < 50
    /\ sm_in.regime = "HIGH_VOLATILITY"
    /\ sm_in.hour = 0
    /\ \E call \in DOMAIN sm_out :
          sm_out[call].type = "EXIT" /\ sm_out[call].slipped_price > sm_in.price

\* the conditions of the classifier on the metrics of a call; a NaN metric
\* satisfies none
HighVolatilityHolds(m) ==
    m.volatility_pct # NaN /\ m.volatility_pct > 150 /\ m.volatility_increasing

TrendUpHolds(m) ==
    /\ m.trend_strength # NaN /\ m.trend_strength > 30
    /\ m.trend_consistent > 7
    /\ m.adx > 25

TrendDownHolds(m) ==
    /\ m.trend_strength # NaN /\ m.trend_strength < -30
    /\ m.trend_consistent < 3
    /\ m.adx > 25

SqueezeHolds(m) ==
    /\ m.bb_width # NaN /\ m.bb_width_ma # NaN
    /\ 2 * m.bb_width < m.bb_width_ma
    /\ m.volume_increasing

\* C26: the classifier returns exactly one of the five labels, in fixed
\* precedence: HIGH_VOLATILITY whenever the high-volatility condition holds,
\* whatever the trend metrics; TRENDING_UP / TRENDING_DOWN only without high
\* volatility and with trend strength, consistency and ADX > 25; BREAKOUT_FORMING
\* only when none of these holds and the squeeze with rising volume does;
\* RANGING in every other case
C26_FixedPrecedence ==
    \A call \in DOMAIN md_out :
        LET m      == md_out[call].metrics
            regime == md_out[call].regime
        IN  /\ regime \in {"TRENDING_UP", "TRENDING_DOWN", "RANGING",
                           "HIGH_VOLATILITY", "BREAKOUT_FORMING"}
            /\ regime = "HIGH_VOLATILITY" <=> HighVolatilityHolds(m)
            /\ regime = "TRENDING_UP" <=> (~HighVolatilityHolds(m) /\ TrendUpHolds(m))
            /\ regime = "TRENDING_DOWN" <=> (~HighVolatilityHolds(m) /\ TrendDownHolds(m))
            /\ regime = "BREAKOUT_FORMING" <=>
                  (/\ ~HighVolatilityHolds(m) /\ ~TrendUpHolds(m) /\ ~TrendDownHolds(m)
                   /\ SqueezeHolds(m))
            /\ regime = "RANGING" <=>
                  (/\ ~HighVolatilityHolds(m) /\ ~TrendUpHolds(m) /\ ~TrendDownHolds(m)
                   /\ ~SqueezeHolds(m))

\* high volatility, a strong up-trend and a squeeze at once: HIGH_VOLATILITY
C26_Witness ==
    /\ md_out # <<>>
    /\ HighVolatilityHolds(md_out[1].metrics)
    /\ TrendUpHolds(md_out[1].metrics)
    /\ SqueezeHolds(md_out[1].metrics)
    /\ md_out[1].regime = "HIGH_VOLATILITY"

\* C27: in every report the summary agrees with the capital figures:
\* total_pnl = final_capital - initial_capital, and total_return_pct is
\* total_pnl / initial_capital x 100, runs with TP1 / TP2 partial exits included
C27_PnlMatchesCapital ==
    (engine.pc = "done" /\ "total_pnl" \in DOMAIN engine.result) =>
        /\ engine.result.total_pnl
              = engine.result.final_capital - engine.result.initial_capital
        /\ engine.result.total_return_pct
              = [num |-> engine.result.total_pnl, den |-> engine.result.initial_capital]

\* the greatest of the recorded drawdowns
RECURSIVE MaxOfDrawdowns(_)
MaxOfDrawdowns(samples) ==
    IF Len(samples) = 1 THEN Head(samples).drawdown
    ELSE LET rest == MaxOfDrawdowns(Tail(samples))
             first == Head(samples).drawdown
         IN  IF FractionLess(first.num, first.den, rest.num, rest.den) THEN rest ELSE first

\* C28: the max_drawdown of the report is the worst drawdown of the run: no
\* recorded sample has a greater drawdown, so when the kill-switch fired the
\* reported max_drawdown is over the limit
C28_WorstDrawdownReported ==
    (engine.pc = "done" /\ "max_drawdown" \in DOMAIN engine.result) =>
        /\ \A k \in DOMAIN engine.equity_history :
              ~FractionLess(engine.result.max_drawdown.num, engine.result.max_drawdown.den,
                            engine.equity_history[k].drawdown.num,
                            engine.equity_history[k].drawdown.den)
        /\ engine.result.max_drawdown = MaxOfDrawdowns(engine.equity_history)
        /\ engine.stop_trading => DrawdownExceeds(engine.result.max_drawdown, MAX_DRAWDOWN)

\* C29: a quantity the sizer returns never risks more than the budget: the
\* loss at the stop, quantity x |entry_price - stop_loss_price|, is at most
\* capital x MAX_RISK_PER_TRADE, entry prices below 1 included
C29_RiskWithinBudget ==
    \A call \in ps_out :
        call.result # NoQuantity =>
            call.result[1] * Abs(ps_in.entry_price - ps_in.stop_loss_price)
                <= ps_in.capital * MAX_RISK_PER_TRADE * PriceDen

\* the total of the quantities of a sequence of exit orders
RECURSIVE OrderedOut(_)
OrderedOut(orders) ==
    IF orders = <<>> THEN 0 ELSE Head(orders) + OrderedOut(Tail(orders))

\* C30: on the live path the exit orders of one position never add up to more
\* than its entry quantity, and while the position is tracked its
\* current_quantity is the entry quantity less everything ordered out so far
C30_ExitsWithinEntry ==
    tracker # None =>
        /\ OrderedOut(tracker.exit_orders) <= tracker.executed_trades[1].quantity
        /\ tracker.positions # <<>> =>
              tracker.positions[1].current_quantity
                  = tracker.executed_trades[1].quantity - OrderedOut(tracker.exit_orders)

====
